---- MODULE Spec2Model ----
(***************************************************************************)
(* State-snapshot and upgrade engine of canister-tools                     *)
(* (src/src/stable_memory_tools.rs), with the global DATA of the sample     *)
(* canister of the crate documentation (src/src/lib.rs) as the registered  *)
(* value.                                                                  *)
(*                                                                         *)
(* A trap aborts the running message and the host rolls the message's      *)
(* changes back: a trapping step leaves the canister state as it was and   *)
(* only the outcome of the message (the variable last) tells it happened.  *)
(***************************************************************************)
EXTENDS Integers, Sequences, FiniteSets, TLC

VARIABLES
    DATA,             \* the canister's global value (thread_local DATA)
    STATE_SNAPSHOTS,  \* registry: MemoryId -> SnapshotData
    MEMORY_MANAGER,   \* MemoryId -> virtual stable memory (pages, bytes)
    last,             \* the last message: operation, MemoryId, outcome, reply
    cycle,            \* the upgrade cycle or snapshot transfer under way
    running,          \* the closures running in the message under way, outermost first
    upgrades          \* the upgrades so far: pre_upgrade hooks that succeeded

vars == <<DATA, STATE_SNAPSHOTS, MEMORY_MANAGER, last, cycle, running, upgrades>>

(***************************************************************************)
(* Bounds of the model.                                                    *)
(***************************************************************************)
MaxSnapshotLen == 3      \* longest staged snapshot an upload may build
MaxPages == 2            \* pages the host has for all virtual memories together
MaxUpgrades == 2         \* upgrades (successful pre_upgrade hooks) of a behaviour

MemoryIds == {0, 1}      \* the MemoryIds messages name
Byte == {0, 1}           \* byte values uploads and raw writes carry
Slots == {"DATA"}        \* the canister's thread_local statics
Callers == {"controller", "stranger"}

(***************************************************************************)
(* Program constants.                                                      *)
(***************************************************************************)
STABLE_MEMORY_HEADER_SIZE_BYTES == 1024
DATA_UPGRADE_SERIALIZATION_MEMORY_ID == 0
WASM_PAGE_SIZE_IN_BYTES == 65536

(***************************************************************************)
(* Byte strings.                                                           *)
(***************************************************************************)
RECURSIVE SeqsUpTo(_)
SeqsUpTo(n) ==
    IF n = 0 THEN {<<>>}
    ELSE LET shorter == SeqsUpTo(n - 1)
         IN  shorter \cup {Append(b, x) : b \in {c \in shorter : Len(c) = n - 1}, x \in Byte}

(***************************************************************************)
(* Serializable: the blanket bincode implementation (DefaultOptions:       *)
(* varint integers, varint length prefixes, trailing bytes rejected) on    *)
(* the two types of the sample of the crate documentation,                 *)
(*     struct OldData {}                                                   *)
(*     struct Data { field_one: String, field_two: u64 }                   *)
(* Every integer of the model is below 251, so a varint is one byte.       *)
(***************************************************************************)
Types == {"OldData", "Data"}

Ok(v) == [ok |-> TRUE, val |-> v]
Err == [ok |-> FALSE, val |-> <<>>]

MkOldData == [ty |-> "OldData"]
MkData(one, two) == [ty |-> "Data", field_one |-> one, field_two |-> two]

Default(ty) == IF ty = "OldData" THEN MkOldData ELSE MkData(<<>>, 0)

forward(v) ==
    IF v.ty = "OldData"
    THEN Ok(<<>>)
    ELSE Ok(<<Len(v.field_one)>> \o v.field_one \o <<v.field_two>>)

backward(ty, b) ==
    IF ty = "OldData"
    THEN IF Len(b) = 0 THEN Ok(MkOldData) ELSE Err
    ELSE IF Len(b) = 0 THEN Err
         ELSE LET n == b[1]
              IN  IF Len(b) < n + 2 THEN Err              \* unexpected end of input
                  ELSE IF Len(b) > n + 2 THEN Err         \* trailing bytes
                  ELSE Ok(MkData(SubSeq(b, 2, n + 1), b[n + 2]))

(***************************************************************************)
(* VirtualMemory<DefaultMemoryImpl>: a page count and the bytes written,   *)
(* kept sparsely (a byte never written, or written 0, reads 0).  A read    *)
(* or write beyond the pages of the memory panics in the memory manager.   *)
(* The host gives all virtual memories together at most MaxPages pages.    *)
(***************************************************************************)
NoBytes == [a \in {} |-> 0]

EmptyMemory == [pages |-> 0, bytes |-> NoBytes]

size(memory) == memory.pages

ByteAt(memory, a) == IF a \in DOMAIN memory.bytes THEN memory.bytes[a] ELSE 0

InBounds(memory, offset, n) == offset + n <= size(memory) * WASM_PAGE_SIZE_IN_BYTES

\* Memory::read into a buffer of n bytes; the caller checks InBounds
read(memory, offset, n) == [i \in 1..n |-> ByteAt(memory, offset + i - 1)]

\* Memory::write; the caller checks InBounds
write(memory, offset, src) ==
    LET hit == {offset + i - 1 : i \in 1..Len(src)}
        set == {offset + i - 1 : i \in {j \in 1..Len(src) : src[j] # 0}}
        dom == (DOMAIN memory.bytes \ hit) \cup set
    IN  [memory EXCEPT !.bytes =
            [a \in dom |-> IF a \in hit THEN src[a - offset + 1] ELSE memory.bytes[a]]]

\* Memory::grow: the previous size in pages, or -1 when the host has no page left
grow(memory, pages, free) ==
    IF pages > free
    THEN [result |-> -1, memory |-> memory]
    ELSE [result |-> memory.pages, memory |-> [memory EXCEPT !.pages = @ + pages]]

RECURSIVE SumPages(_, _)
SumPages(mgr, ids) ==
    IF ids = {} THEN 0
    ELSE LET id == CHOOSE i \in ids : TRUE
         IN  mgr[id].pages + SumPages(mgr, ids \ {id})

FreePages(mgr) == MaxPages - SumPages(mgr, DOMAIN mgr)

\* get_virtual_memory: the memory manager vends the memory of any MemoryId
get_virtual_memory(mgr, memory_id) == mgr[memory_id]

(***************************************************************************)
(* The length-framed blob: [u64 big-endian length][payload].               *)
(***************************************************************************)
\* mutant: the length is written least significant byte first
to_le_bytes(n) ==
    <<n % 256, (n \div 256) % 256, (n \div 65536) % 256, (n \div 16777216) % 256, 0, 0, 0, 0>>

\* (n as u64).to_be_bytes(), for n < 2^31
to_be_bytes(n) ==
    <<0, 0, 0, 0, (n \div 16777216) % 256, (n \div 65536) % 256, (n \div 256) % 256, n % 256>>

\* u64::from_be_bytes(b) followed by try_into::<usize>(): a length of 2^31 or
\* more cannot be allocated by the 32-bit canister and the message traps
from_be_bytes(b) ==
    IF b[1] # 0 \/ b[2] # 0 \/ b[3] # 0 \/ b[4] # 0 \/ b[5] >= 128
    THEN Err
    ELSE Ok(b[5] * 16777216 + b[6] * 65536 + b[7] * 256 + b[8])

\* mutant: the pages asked for are not rounded up
GrowPagesRoundedDown(memory_size_bytes, want_memory_size_bytes) ==
    (want_memory_size_bytes - memory_size_bytes) \div WASM_PAGE_SIZE_IN_BYTES

\* the pages locate_minimum_memory asks grow for
GrowPages(memory_size_bytes, want_memory_size_bytes) ==
    ((want_memory_size_bytes - memory_size_bytes) \div WASM_PAGE_SIZE_IN_BYTES) + 1

\* mutant: the result of grow is not looked at
locate_ignoring_grow_result(memory, want_memory_size_bytes, free) ==
    LET memory_size_bytes == size(memory) * WASM_PAGE_SIZE_IN_BYTES
    IN  IF memory_size_bytes < want_memory_size_bytes
        THEN Ok(grow(memory, GrowPages(memory_size_bytes, want_memory_size_bytes), free).memory)
        ELSE Ok(memory)

locate_minimum_memory(memory, want_memory_size_bytes, free) ==
    LET memory_size_bytes == size(memory) * WASM_PAGE_SIZE_IN_BYTES
    IN  IF memory_size_bytes < want_memory_size_bytes
        THEN LET g == grow(memory, GrowPages(memory_size_bytes, want_memory_size_bytes), free)
             IN  IF g.result = -1 THEN [ok |-> FALSE, val |-> memory]
                 ELSE Ok(g.memory)
        ELSE Ok(memory)

\* mutant: the length is written in the eight bytes before the offset
write_data_length_before(memory, stable_memory_offset, data, free) ==
    LET located == locate_minimum_memory(memory, stable_memory_offset + 8 + Len(data), free)
    IN  IF ~located.ok THEN [ok |-> FALSE, val |-> memory]
        ELSE Ok(write(write(located.val, stable_memory_offset - 8, to_be_bytes(Len(data))),
                      stable_memory_offset, data))

\* mutant: the payload is written at the offset of its length
write_data_over_length(memory, stable_memory_offset, data, free) ==
    LET located == locate_minimum_memory(memory, stable_memory_offset + 8 + Len(data), free)
    IN  IF ~located.ok THEN [ok |-> FALSE, val |-> memory]
        ELSE Ok(write(write(located.val, stable_memory_offset, to_be_bytes(Len(data))),
                      stable_memory_offset, data))

\* mutant: a length shorter than the one already written is not written
write_data_never_shortening(memory, stable_memory_offset, data, free) ==
    LET located == locate_minimum_memory(memory, stable_memory_offset + 8 + Len(data), free)
        before == from_be_bytes(read(located.val, stable_memory_offset, 8))
        n == IF before.ok /\ before.val > Len(data) THEN before.val ELSE Len(data)
    IN  IF ~located.ok THEN [ok |-> FALSE, val |-> memory]
        ELSE Ok(write(write(located.val, stable_memory_offset, to_be_bytes(n)),
                      stable_memory_offset + 8, data))

write_data_with_length_onto_the_stable_memory(memory, stable_memory_offset, data, free) ==
    LET located == locate_minimum_memory(memory, stable_memory_offset + 8 + Len(data), free)
    IN  IF ~located.ok THEN [ok |-> FALSE, val |-> memory]
        ELSE Ok(write(write(located.val, stable_memory_offset, to_be_bytes(Len(data))),
                      stable_memory_offset + 8, data))

\* mutant: a blob of no bytes is not read
read_nonempty_bytes_with_length(memory, stable_memory_offset) ==
    IF ~InBounds(memory, stable_memory_offset, 8) THEN Err
    ELSE LET data_len == from_be_bytes(read(memory, stable_memory_offset, 8))
         IN  IF ~data_len.ok \/ data_len.val = 0 THEN Err
             ELSE IF ~InBounds(memory, stable_memory_offset + 8, data_len.val) THEN Err
             ELSE Ok(read(memory, stable_memory_offset + 8, data_len.val))

read_stable_memory_bytes_with_length(memory, stable_memory_offset) ==
    IF ~InBounds(memory, stable_memory_offset, 8) THEN Err
    ELSE LET data_len == from_be_bytes(read(memory, stable_memory_offset, 8))
         IN  IF ~data_len.ok THEN Err
             ELSE IF ~InBounds(memory, stable_memory_offset + 8, data_len.val) THEN Err
             ELSE Ok(read(memory, stable_memory_offset + 8, data_len.val))

(***************************************************************************)
(* u64 arguments of controller_download_state_snapshot, kept at their      *)
(* width as four 16-bit limbs, least significant first.  The canister is   *)
(* a wasm32 module: usize is the low two limbs.                            *)
(***************************************************************************)
Limb == 65536

U64(n) == <<n, 0, 0, 0>>

\* offset + length on u64: the wrapped sum, and whether it overflowed
add_u64(a, b) ==
    LET s1 == a[1] + b[1]
        s2 == a[2] + b[2] + (s1 \div Limb)
        s3 == a[3] + b[3] + (s2 \div Limb)
        s4 == a[4] + b[4] + (s3 \div Limb)
    IN  [val |-> <<s1 % Limb, s2 % Limb, s3 % Limb, s4 % Limb>>, overflow |-> s4 >= Limb]

\* the builds of the canister: the width of usize of the target (wasm32 or
\* wasm64) and whether the profile checks integer overflow
Builds == [usize_bits : {32, 64}, overflow_checks : BOOLEAN]

\* x as usize: the low 32 bits on wasm32, all 64 on wasm64
as_usize(x, build) == IF build.usize_bits = 32 THEN <<x[1], x[2], 0, 0>> ELSE x

\* a <= b on usize
usize_le(a, b) ==
    \/ a[4] < b[4]
    \/ a[4] = b[4] /\ a[3] < b[3]
    \/ a[4] = b[4] /\ a[3] = b[3] /\ a[2] < b[2]
    \/ a[4] = b[4] /\ a[3] = b[3] /\ a[2] = b[2] /\ a[1] <= b[1]

\* &snapshot[start..end]: panics unless start <= end <= snapshot.len()
slice(snapshot, start, end) ==
    IF usize_le(start, end) /\ usize_le(end, U64(Len(snapshot)))
    THEN Ok(SubSeq(snapshot, start[1] + 1, end[1]))
    ELSE Err

(***************************************************************************)
(* SnapshotData and its two closures.  The closures capture the static s   *)
(* and are built for its type Data.                                        *)
(***************************************************************************)
SnapshotData(s, ty) == [snapshot |-> <<>>, s |-> s, Data |-> ty]

\* load_data_fn: *data = backward(b)?
load_data_fn(d, b) == backward(d.Data, b)

\* mutant: the closure serializes a value taken when it was made
serialize_value_at_registration(d, data) == forward(Default(d.Data))

\* serialize_data_fn: forward(data), of the value as it is now
serialize_data_fn(d, data) == forward(data)

NoSnapshots == [id \in {} |-> SnapshotData("DATA", "Data")]

Insert(state_snapshots, memory_id, d) ==
    [id \in DOMAIN state_snapshots \cup {memory_id} |->
        IF id = memory_id THEN d ELSE state_snapshots[id]]

(***************************************************************************)
(* The outcome of a message, and the upgrade cycle.                        *)
(***************************************************************************)
Msg(op, id, result, bytes, num, opt) ==
    [op |-> op, id |-> id, result |-> result, bytes |-> bytes, num |-> num, opt |-> opt]

\* the message ends with this outcome: no closure of it is running any more
Reply(m) == last' = m /\ running' = <<>> /\ upgrades' = upgrades

\* cycle: the upgrade cycle or the snapshot transfer under way.
\*   "pre"       pre_upgrade ran: v is the value it serialized, ids the registry,
\*               bytes the chunks of the upload it found under way and replaced
\*   "fresh"     the host installed the new code after that pre_upgrade
\*   "created"   a snapshot of ids = {id} was created: v is the value then
\*   "reloaded"  ... and was loaded at once
\*   "uploading" the snapshot of ids = {id} was cleared: bytes are the chunks
\*               appended to it since, one after the other
\*   "uploaded"  ... and was loaded
Course(stage, v, ids, bytes) == [stage |-> stage, v |-> v, ids |-> ids, bytes |-> bytes]

Idle == Course("idle", MkOldData, {}, <<>>)

\* a message that neither begins nor ends a course leaves an upload under way
Aside == IF cycle.stage = "uploading" THEN cycle ELSE Idle

\* the message trapped: the host rolls back what it did
Trap(op, reason) ==
    /\ Reply(Msg("trap", -1, reason, <<>>, 0, ""))
    /\ UNCHANGED <<DATA, STATE_SNAPSHOTS, MEMORY_MANAGER, cycle>>

\* mutant: the guard lets every caller through
is_controller_anyone(caller) == TRUE

is_controller(caller) == caller = "controller"

Init ==
    /\ DATA \in {Default(ty) : ty \in Types}
    /\ STATE_SNAPSHOTS = NoSnapshots
    /\ MEMORY_MANAGER = [id \in MemoryIds |-> EmptyMemory]
    /\ last = Msg("install", -1, "ok", <<>>, 0, DATA.ty)
    /\ cycle = Idle
    /\ running = <<>>
    /\ upgrades = 0

(***************************************************************************)
(* init, pre_upgrade, post_upgrade.                                        *)
(***************************************************************************)
\* mutant: init without the contains_key check replaces the entry
init_overwrite(s, memory_id) ==
    /\ STATE_SNAPSHOTS' = Insert(STATE_SNAPSHOTS, memory_id, SnapshotData(s, DATA.ty))
    /\ Reply(Msg("init", memory_id, "ok", <<>>, 0, ""))
    /\ UNCHANGED <<DATA, MEMORY_MANAGER, cycle>>

init(s, memory_id) ==
    IF memory_id \in DOMAIN STATE_SNAPSHOTS
    THEN Trap("init", "already_registered")
    ELSE /\ STATE_SNAPSHOTS' = Insert(STATE_SNAPSHOTS, memory_id, SnapshotData(s, DATA.ty))
         /\ Reply(Msg("init", memory_id, "ok", <<>>, 0, ""))
         /\ UNCHANGED <<DATA, MEMORY_MANAGER, cycle>>

\* the loop of pre_upgrade over the registry, in the order of the MemoryIds
RECURSIVE pre_upgrade_loop(_, _, _, _)
pre_upgrade_loop(ids, state_snapshots, mgr, data) ==
    IF ids = {} THEN [ok |-> TRUE, state_snapshots |-> state_snapshots, mgr |-> mgr]
    ELSE LET memory_id == CHOOSE i \in ids : \A j \in ids : i <= j
             d == state_snapshots[memory_id]
             serialized == serialize_data_fn(d, data)
             written == write_data_with_length_onto_the_stable_memory(
                            get_virtual_memory(mgr, memory_id),
                            STABLE_MEMORY_HEADER_SIZE_BYTES,
                            serialized.val,
                            FreePages(mgr))
         IN  IF ~serialized.ok \/ ~written.ok
             THEN [ok |-> FALSE, state_snapshots |-> state_snapshots, mgr |-> mgr]
             ELSE pre_upgrade_loop(
                      ids \ {memory_id},
                      [state_snapshots EXCEPT ![memory_id].snapshot = serialized.val],
                      [mgr EXCEPT ![memory_id] = written.val],
                      data)

pre_upgrade ==
    LET done == pre_upgrade_loop(DOMAIN STATE_SNAPSHOTS, STATE_SNAPSHOTS, MEMORY_MANAGER, DATA)
    IN  IF ~done.ok
        THEN Trap("pre_upgrade", "out_of_memory")
        ELSE /\ upgrades < MaxUpgrades
             /\ STATE_SNAPSHOTS' = done.state_snapshots
             /\ MEMORY_MANAGER' = done.mgr
             /\ last' = Msg("pre_upgrade", -1, "ok", <<>>, 0, "")
             /\ running' = <<>>
             /\ upgrades' = upgrades + 1
             /\ cycle' = Course("pre", DATA, DOMAIN STATE_SNAPSHOTS,
                                IF cycle.stage = "uploading" /\ cycle.ids \subseteq DOMAIN STATE_SNAPSHOTS
                                THEN cycle.bytes ELSE <<>>)
             /\ UNCHANGED DATA

\* the value the #[init] hook of the canister assigns,
\* Data { field_one: String::from("Hi World"), field_two: 55 }: the string
\* as its UTF-8 bytes
HiWorld == MkData(<<72, 105, 32, 87, 111, 114, 108, 100>>, 55)

\* the conversions a post_upgrade may be given: Fn(OldData) -> Data
Converts == {"hi_world", "carry"}

old_as_new_convert(f, old, ty) ==
    IF ty = "OldData" THEN MkOldData
    ELSE IF f = "hi_world" THEN HiWorld
    ELSE IF old.ty = "Data" THEN MkData(<<>>, old.field_two)
    ELSE MkData(<<>>, 1)

\* mutant: the bytes are decoded as the new type before the conversion
post_upgrade_value_new_backward(stable_data, ty, OldTy, opt_old_as_new_convert) ==
    IF opt_old_as_new_convert = "None"
    THEN backward(ty, stable_data)
    ELSE LET old == backward(ty, stable_data)
         IN  IF old.ok THEN Ok(old_as_new_convert(opt_old_as_new_convert, old.val, ty))
             ELSE Err

\* the value post_upgrade assigns to the static, of type ty
post_upgrade_value(stable_data, ty, OldTy, opt_old_as_new_convert) ==
    IF opt_old_as_new_convert = "None"
    THEN backward(ty, stable_data)
    ELSE LET old == backward(OldTy, stable_data)
         IN  IF old.ok THEN Ok(old_as_new_convert(opt_old_as_new_convert, old.val, ty))
             ELSE Err

\* mutant: the entry is registered with closures over the old type
post_upgrade_closures_of_old_type(s, memory_id, OldTy, opt_old_as_new_convert) ==
    LET stable_data == read_stable_memory_bytes_with_length(
                           get_virtual_memory(MEMORY_MANAGER, memory_id),
                           STABLE_MEMORY_HEADER_SIZE_BYTES)
        value == post_upgrade_value(stable_data.val, DATA.ty, OldTy, opt_old_as_new_convert)
    IN  IF ~stable_data.ok
        THEN Trap("post_upgrade", "out_of_bounds")
        ELSE IF ~value.ok
        THEN Trap("post_upgrade", "codec")
        ELSE IF memory_id \in DOMAIN STATE_SNAPSHOTS
        THEN Trap("post_upgrade", "already_registered")
        ELSE /\ DATA' = value.val
             /\ STATE_SNAPSHOTS' = Insert(STATE_SNAPSHOTS, memory_id, SnapshotData(s, OldTy))
             /\ Reply(Msg("post_upgrade", memory_id, "ok", <<>>, 0, opt_old_as_new_convert))
             /\ UNCHANGED <<MEMORY_MANAGER, cycle>>

\* mutant: the value assigned before the registration step outlives the trap
post_upgrade_keeping_assignment(s, memory_id, OldTy, opt_old_as_new_convert) ==
    LET stable_data == read_stable_memory_bytes_with_length(
                           get_virtual_memory(MEMORY_MANAGER, memory_id),
                           STABLE_MEMORY_HEADER_SIZE_BYTES)
        value == post_upgrade_value(stable_data.val, DATA.ty, OldTy, opt_old_as_new_convert)
    IN  IF ~stable_data.ok
        THEN Trap("post_upgrade", "out_of_bounds")
        ELSE IF ~value.ok
        THEN Trap("post_upgrade", "codec")
        ELSE IF memory_id \in DOMAIN STATE_SNAPSHOTS
        THEN /\ DATA' = value.val
             /\ Reply(Msg("trap", -1, "already_registered", <<>>, 0, ""))
             /\ UNCHANGED <<STATE_SNAPSHOTS, MEMORY_MANAGER, cycle>>
        ELSE /\ DATA' = value.val
             /\ STATE_SNAPSHOTS' = Insert(STATE_SNAPSHOTS, memory_id, SnapshotData(s, DATA.ty))
             /\ Reply(Msg("post_upgrade", memory_id, "ok", <<>>, 0, opt_old_as_new_convert))
             /\ UNCHANGED <<MEMORY_MANAGER, cycle>>

post_upgrade(s, memory_id, OldTy, opt_old_as_new_convert) ==
    LET stable_data == read_stable_memory_bytes_with_length(
                           get_virtual_memory(MEMORY_MANAGER, memory_id),
                           STABLE_MEMORY_HEADER_SIZE_BYTES)
        value == post_upgrade_value(stable_data.val, DATA.ty, OldTy, opt_old_as_new_convert)
    IN  IF ~stable_data.ok
        THEN Trap("post_upgrade", "out_of_bounds")
        ELSE IF ~value.ok
        THEN Trap("post_upgrade", "codec")
        ELSE IF memory_id \in DOMAIN STATE_SNAPSHOTS
        THEN Trap("post_upgrade", "already_registered")
        ELSE /\ DATA' = value.val
             /\ STATE_SNAPSHOTS' = Insert(STATE_SNAPSHOTS, memory_id, SnapshotData(s, DATA.ty))
             /\ Reply(Msg("post_upgrade", memory_id, "ok", <<>>, 0, opt_old_as_new_convert))
             /\ UNCHANGED <<MEMORY_MANAGER, cycle>>

(***************************************************************************)
(* The host replaces the code after the pre_upgrade hook returned: the     *)
(* heap starts afresh (thread_local initial values), stable memory stays.  *)
(***************************************************************************)
Install(ty) ==
    /\ cycle.stage = "pre"
    /\ DATA' = Default(ty)
    /\ STATE_SNAPSHOTS' = NoSnapshots
    /\ Reply(Msg("install", -1, "ok", <<>>, 0, ty))
    /\ cycle' = [cycle EXCEPT !.stage = "fresh"]
    /\ UNCHANGED MEMORY_MANAGER

\* the #[init] hook of the canister with the static of type Data: it
\* registers DATA for DATA_UPGRADE_SERIALIZATION_MEMORY_ID, then assigns it
canister_init ==
    /\ DATA.ty = "Data"
    /\ IF DATA_UPGRADE_SERIALIZATION_MEMORY_ID \in DOMAIN STATE_SNAPSHOTS
       THEN Trap("canister_init", "already_registered")
       ELSE /\ STATE_SNAPSHOTS' = Insert(STATE_SNAPSHOTS, DATA_UPGRADE_SERIALIZATION_MEMORY_ID,
                                         SnapshotData("DATA", DATA.ty))
            /\ DATA' = HiWorld
            /\ Reply(Msg("canister_init", DATA_UPGRADE_SERIALIZATION_MEMORY_ID, "ok", <<>>, 0, ""))
            /\ cycle' = Aside
            /\ UNCHANGED MEMORY_MANAGER

\* the update call of the canister with the static of type Data: field_two
\* is assigned, field_one stays
set_field_two(value) ==
    /\ DATA.ty = "Data"
    /\ DATA' = [DATA EXCEPT !.field_two = value]
    /\ Reply(Msg("set", -1, "ok", <<>>, 0, ""))
    /\ cycle' = Aside
    /\ UNCHANGED <<STATE_SNAPSHOTS, MEMORY_MANAGER>>

(***************************************************************************)
(* State-snapshot controller methods.                                      *)
(***************************************************************************)
\* mutant: the new snapshot is appended to the staged one
create_appending(caller, memory_id) ==
    IF ~is_controller(caller)
    THEN Trap("create", "unauthorized")
    ELSE IF memory_id \notin DOMAIN STATE_SNAPSHOTS
    THEN Trap("create", "unregistered")
    ELSE LET d == STATE_SNAPSHOTS[memory_id]
             serialized == serialize_data_fn(d, DATA)
         IN  /\ STATE_SNAPSHOTS' = [STATE_SNAPSHOTS EXCEPT ![memory_id].snapshot = @ \o serialized.val]
             /\ Reply(Msg("create", memory_id, "ok", <<>>, Len(d.snapshot) + Len(serialized.val), ""))
             /\ cycle' = Course("created", DATA, {memory_id}, <<>>)
             /\ UNCHANGED <<DATA, MEMORY_MANAGER>>

controller_create_state_snapshot(caller, memory_id) ==
    IF ~is_controller(caller)
    THEN Trap("create", "unauthorized")
    ELSE IF memory_id \notin DOMAIN STATE_SNAPSHOTS
    THEN Trap("create", "unregistered")
    ELSE LET d == STATE_SNAPSHOTS[memory_id]
             serialized == serialize_data_fn(d, DATA)
         IN  IF ~serialized.ok
             THEN Trap("create", "codec")
             ELSE /\ STATE_SNAPSHOTS' = [STATE_SNAPSHOTS EXCEPT ![memory_id].snapshot = serialized.val]
                  /\ Reply(Msg("create", memory_id, "ok", <<>>, Len(serialized.val), ""))
                  /\ cycle' = Course("created", DATA, {memory_id}, <<>>)
                  /\ UNCHANGED <<DATA, MEMORY_MANAGER>>

\* mutant: the length is taken for the end of the slice
download_reply_to_length(snapshot, offset, length, build) ==
    slice(snapshot, as_usize(offset, build), as_usize(length, build))

\* the reply of a download: the slice offset .. offset + length of the snapshot.
\* With overflow checks a wrapping u64 sum panics, without them (the release
\* profile) it wraps.
download_reply(snapshot, offset, length, build) ==
    LET sum == add_u64(offset, length)
    IN  IF sum.overflow /\ build.overflow_checks THEN Err
        ELSE slice(snapshot, as_usize(offset, build), as_usize(sum.val, build))

controller_download_state_snapshot(caller, memory_id, offset, length, build) ==
    IF ~is_controller(caller)
    THEN Trap("download", "unauthorized")
    ELSE IF memory_id \notin DOMAIN STATE_SNAPSHOTS
    THEN Trap("download", "unregistered")
    ELSE LET d == STATE_SNAPSHOTS[memory_id]
             bytes == download_reply(d.snapshot, offset, length, build)
         IN  IF ~bytes.ok
             THEN Trap("download", "out_of_range")
             ELSE /\ Reply(Msg("download", memory_id, "ok", bytes.val, 0, ""))
                  /\ cycle' = Aside
                  /\ UNCHANGED <<DATA, STATE_SNAPSHOTS, MEMORY_MANAGER>>

\* mutant: clear makes an entry for a MemoryId that has none
clear_inserting(caller, memory_id) ==
    IF ~is_controller(caller)
    THEN Trap("clear", "unauthorized")
    ELSE /\ STATE_SNAPSHOTS' = Insert(STATE_SNAPSHOTS, memory_id, SnapshotData("DATA", DATA.ty))
         /\ Reply(Msg("clear", memory_id, "ok", <<>>, 0, ""))
         /\ cycle' = Course("uploading", MkOldData, {memory_id}, <<>>)
         /\ UNCHANGED <<DATA, MEMORY_MANAGER>>

controller_clear_state_snapshot(caller, memory_id) ==
    IF ~is_controller(caller)
    THEN Trap("clear", "unauthorized")
    ELSE IF memory_id \notin DOMAIN STATE_SNAPSHOTS
    THEN Trap("clear", "unregistered")
    ELSE /\ STATE_SNAPSHOTS' = [STATE_SNAPSHOTS EXCEPT ![memory_id].snapshot = <<>>]
         /\ Reply(Msg("clear", memory_id, "ok", <<>>, 0, ""))
         /\ cycle' = Course("uploading", MkOldData, {memory_id}, <<>>)
         /\ UNCHANGED <<DATA, MEMORY_MANAGER>>

\* mutant: the chunk is also framed into the memory of the MemoryId
append_syncing_memory(caller, memory_id, bytes) ==
    IF ~is_controller(caller)
    THEN Trap("append", "unauthorized")
    ELSE IF memory_id \notin DOMAIN STATE_SNAPSHOTS
    THEN Trap("append", "unregistered")
    ELSE LET d == STATE_SNAPSHOTS[memory_id]
             written == write_data_with_length_onto_the_stable_memory(
                            get_virtual_memory(MEMORY_MANAGER, memory_id),
                            STABLE_MEMORY_HEADER_SIZE_BYTES,
                            d.snapshot \o bytes,
                            FreePages(MEMORY_MANAGER))
         IN  /\ Len(d.snapshot) + Len(bytes) <= MaxSnapshotLen
             /\ STATE_SNAPSHOTS' = [STATE_SNAPSHOTS EXCEPT ![memory_id].snapshot = @ \o bytes]
             /\ MEMORY_MANAGER' = [MEMORY_MANAGER EXCEPT ![memory_id] = written.val]
             /\ Reply(Msg("append", memory_id, "ok", <<>>, 0, ""))
             /\ cycle' = IF cycle.stage = "uploading" /\ cycle.ids = {memory_id}
                           THEN [cycle EXCEPT !.bytes = @ \o bytes]
                           ELSE Aside
             /\ UNCHANGED DATA

\* mutant: the chunk replaces the staged snapshot
append_replacing(caller, memory_id, bytes) ==
    IF ~is_controller(caller)
    THEN Trap("append", "unauthorized")
    ELSE IF memory_id \notin DOMAIN STATE_SNAPSHOTS
    THEN Trap("append", "unregistered")
    ELSE /\ Len(STATE_SNAPSHOTS[memory_id].snapshot) + Len(bytes) <= MaxSnapshotLen
         /\ STATE_SNAPSHOTS' = [STATE_SNAPSHOTS EXCEPT ![memory_id].snapshot = bytes]
         /\ Reply(Msg("append", memory_id, "ok", <<>>, 0, ""))
         /\ cycle' = IF cycle.stage = "uploading" /\ cycle.ids = {memory_id}
                     THEN [cycle EXCEPT !.bytes = @ \o bytes]
                     ELSE Aside
         /\ UNCHANGED <<DATA, MEMORY_MANAGER>>

controller_append_state_snapshot(caller, memory_id, bytes) ==
    IF ~is_controller(caller)
    THEN Trap("append", "unauthorized")
    ELSE IF memory_id \notin DOMAIN STATE_SNAPSHOTS
    THEN Trap("append", "unregistered")
    ELSE /\ Len(STATE_SNAPSHOTS[memory_id].snapshot) + Len(bytes) <= MaxSnapshotLen
         /\ STATE_SNAPSHOTS' = [STATE_SNAPSHOTS EXCEPT ![memory_id].snapshot = @ \o bytes]
         /\ Reply(Msg("append", memory_id, "ok", <<>>, 0, ""))
         /\ cycle' = IF cycle.stage = "uploading" /\ cycle.ids = {memory_id}
                     THEN [cycle EXCEPT !.bytes = @ \o bytes]
                     ELSE Aside
         /\ UNCHANGED <<DATA, MEMORY_MANAGER>>

\* mutant: the staged snapshot is dropped once it is loaded
load_and_drop(caller, memory_id) ==
    IF ~is_controller(caller)
    THEN Trap("load", "unauthorized")
    ELSE IF memory_id \notin DOMAIN STATE_SNAPSHOTS
    THEN Trap("load", "unregistered")
    ELSE LET d == STATE_SNAPSHOTS[memory_id]
             loaded == load_data_fn(d, d.snapshot)
         IN  IF ~loaded.ok
             THEN Trap("load", "codec")
             ELSE /\ DATA' = loaded.val
                  /\ STATE_SNAPSHOTS' = [STATE_SNAPSHOTS EXCEPT ![memory_id].snapshot = <<>>]
                  /\ Reply(Msg("load", memory_id, "ok", <<>>, 0, ""))
                  /\ cycle' = Aside
                  /\ UNCHANGED MEMORY_MANAGER

\* mutant: the value is assigned before the bytes are known to decode, and
\* the failure is replied rather than trapped
load_assigning_first(caller, memory_id) ==
    IF ~is_controller(caller)
    THEN Trap("load", "unauthorized")
    ELSE IF memory_id \notin DOMAIN STATE_SNAPSHOTS
    THEN Trap("load", "unregistered")
    ELSE LET d == STATE_SNAPSHOTS[memory_id]
             loaded == load_data_fn(d, d.snapshot)
         IN  /\ DATA' = IF loaded.ok THEN loaded.val ELSE Default(d.Data)
             /\ Reply(Msg("load", memory_id, IF loaded.ok THEN "ok" ELSE "codec", <<>>, 0, ""))
             /\ cycle' = IF cycle.stage = "created" /\ cycle.ids = {memory_id}
                           THEN [cycle EXCEPT !.stage = "reloaded"]
                           ELSE IF cycle.stage = "uploading" /\ cycle.ids = {memory_id}
                           THEN [cycle EXCEPT !.stage = "uploaded"]
                           ELSE Aside
             /\ UNCHANGED <<STATE_SNAPSHOTS, MEMORY_MANAGER>>

controller_load_state_snapshot(caller, memory_id) ==
    IF ~is_controller(caller)
    THEN Trap("load", "unauthorized")
    ELSE IF memory_id \notin DOMAIN STATE_SNAPSHOTS
    THEN Trap("load", "unregistered")
    ELSE LET d == STATE_SNAPSHOTS[memory_id]
             loaded == load_data_fn(d, d.snapshot)
         IN  IF ~loaded.ok
             THEN Trap("load", "codec")
             ELSE /\ DATA' = loaded.val
                  /\ Reply(Msg("load", memory_id, "ok", <<>>, 0, ""))
                  /\ cycle' = IF cycle.stage = "created" /\ cycle.ids = {memory_id}
                                THEN [cycle EXCEPT !.stage = "reloaded"]
                                ELSE IF cycle.stage = "uploading" /\ cycle.ids = {memory_id}
                                THEN [cycle EXCEPT !.stage = "uploaded"]
                                ELSE Aside
                  /\ UNCHANGED <<STATE_SNAPSHOTS, MEMORY_MANAGER>>

(***************************************************************************)
(* Stable-memory controller methods.                                       *)
(***************************************************************************)
controller_stable_memory_read(caller, memory_id, offset, length) ==
    LET memory == get_virtual_memory(MEMORY_MANAGER, memory_id)
    IN  IF ~is_controller(caller)
        THEN Trap("stable_read", "unauthorized")
        ELSE IF ~InBounds(memory, offset, length)
        THEN Trap("stable_read", "out_of_bounds")
        ELSE /\ Reply(Msg("stable_read", memory_id, "ok", read(memory, offset, length), 0, ""))
             /\ cycle' = Aside
             /\ UNCHANGED <<DATA, STATE_SNAPSHOTS, MEMORY_MANAGER>>

controller_stable_memory_write(caller, memory_id, offset, b) ==
    LET memory == get_virtual_memory(MEMORY_MANAGER, memory_id)
    IN  IF ~is_controller(caller)
        THEN Trap("stable_write", "unauthorized")
        ELSE IF ~InBounds(memory, offset, Len(b))
        THEN Trap("stable_write", "out_of_bounds")
        ELSE /\ MEMORY_MANAGER' = [MEMORY_MANAGER EXCEPT ![memory_id] = write(memory, offset, b)]
             /\ Reply(Msg("stable_write", memory_id, "ok", <<>>, 0, ""))
             /\ cycle' = Aside
             /\ UNCHANGED <<DATA, STATE_SNAPSHOTS>>

controller_stable_memory_size(caller, memory_id) ==
    LET memory == get_virtual_memory(MEMORY_MANAGER, memory_id)
    IN  IF ~is_controller(caller)
        THEN Trap("stable_size", "unauthorized")
        ELSE /\ Reply(Msg("stable_size", memory_id, "ok", <<>>, size(memory), ""))
             /\ cycle' = Aside
             /\ UNCHANGED <<DATA, STATE_SNAPSHOTS, MEMORY_MANAGER>>

controller_stable_memory_grow(caller, memory_id, pages) ==
    LET memory == get_virtual_memory(MEMORY_MANAGER, memory_id)
        grown == grow(memory, pages, FreePages(MEMORY_MANAGER))
    IN  IF ~is_controller(caller)
        THEN Trap("stable_grow", "unauthorized")
        ELSE /\ MEMORY_MANAGER' = [MEMORY_MANAGER EXCEPT ![memory_id] = grown.memory]
             /\ Reply(Msg("stable_grow", memory_id, "ok", <<>>, grown.result, ""))
             /\ cycle' = Aside
             /\ UNCHANGED <<DATA, STATE_SNAPSHOTS>>

(***************************************************************************)
(* The messages, over the inputs they are given.                           *)
(***************************************************************************)
LibraryCalls(ids) ==
    \/ \E s \in Slots, memory_id \in ids : init(s, memory_id)
    \/ pre_upgrade
    \/ \E s \in Slots, memory_id \in ids, OldTy \in Types, c \in Converts \cup {"None"} :
           post_upgrade(s, memory_id, OldTy, c)
    \/ \E ty \in Types : Install(ty)

CanisterCalls ==
    \/ canister_init
    \/ \E value \in Byte : set_field_two(value)

SnapshotCalls(callers, args, chunks, builds) ==
    \/ \E caller \in callers, memory_id \in MemoryIds :
           controller_create_state_snapshot(caller, memory_id)
    \/ \E caller \in callers, memory_id \in MemoryIds, offset \in args,
          length \in args, build \in builds :
           controller_download_state_snapshot(caller, memory_id, offset, length, build)
    \/ \E caller \in callers, memory_id \in MemoryIds :
           controller_clear_state_snapshot(caller, memory_id)
    \/ \E caller \in callers, memory_id \in MemoryIds, bytes \in chunks :
           controller_append_state_snapshot(caller, memory_id, bytes)
    \/ \E caller \in callers, memory_id \in MemoryIds :
           controller_load_state_snapshot(caller, memory_id)

StableMemoryCalls(offsets, lengths, pages) ==
    \/ \E caller \in Callers, memory_id \in MemoryIds, offset \in offsets, length \in lengths :
           controller_stable_memory_read(caller, memory_id, offset, length)
    \/ \E caller \in Callers, memory_id \in MemoryIds, offset \in offsets :
           controller_stable_memory_write(caller, memory_id, offset, <<1>>)
    \/ \E caller \in Callers, memory_id \in MemoryIds :
           controller_stable_memory_size(caller, memory_id)
    \/ \E caller \in Callers, memory_id \in MemoryIds, n \in pages :
           controller_stable_memory_grow(caller, memory_id, n)

(***************************************************************************)
(* Spec: every operation of the library, on few inputs.                    *)
(***************************************************************************)
\* offsets and lengths of a download: in range, out of range, wrapping usize
FewArgs == {U64(0), U64(2), <<0, 0, 1, 0>>}

\* the build a canister is deployed as: wasm32, release profile
Release == {build \in Builds : build.usize_bits = 32 /\ ~build.overflow_checks}

FewChunks == {<<0, 1>>}

\* the last byte of the reserved header
FewOffsets == {STABLE_MEMORY_HEADER_SIZE_BYTES - 1}

Next ==
    \/ LibraryCalls({DATA_UPGRADE_SERIALIZATION_MEMORY_ID})
    \/ CanisterCalls
    \/ SnapshotCalls(Callers, FewArgs, FewChunks, Release)
    \/ StableMemoryCalls(FewOffsets, {1}, {1})

Spec == Init /\ [][Next]_vars

(***************************************************************************)
(* SpecSnapshot: a running canister and the snapshot methods as its        *)
(* controller calls them, uploading every chunk.                           *)
(***************************************************************************)
Chunks == SeqsUpTo(2)

NextSnapshot ==
    \/ \E s \in Slots, memory_id \in MemoryIds : init(s, memory_id)
    \/ CanisterCalls
    \/ SnapshotCalls({"controller"}, FewArgs, Chunks, Release)

SpecSnapshot == Init /\ [][NextSnapshot]_vars

(***************************************************************************)
(* SpecDownload: the same, downloading at every offset and length from     *)
(* every build.                                                            *)
(***************************************************************************)
\* offsets and lengths of a download: small ones, and ones that wrap
\* usize (2^32, 2^32 + 1) or u64 (2^64 - 1)
DownloadArgs ==
    {U64(n) : n \in 0..MaxSnapshotLen}
        \cup {<<0, 0, 1, 0>>, <<1, 0, 1, 0>>, <<65535, 65535, 65535, 65535>>}

\* the chunks of an upload: of one byte and of two
DownloadChunks == {<<1>>, <<0, 1>>}

NextDownload ==
    \/ \E s \in Slots : init(s, DATA_UPGRADE_SERIALIZATION_MEMORY_ID)
    \/ CanisterCalls
    \/ SnapshotCalls({"controller"}, DownloadArgs, DownloadChunks, Builds)

SpecDownload == Init /\ [][NextDownload]_vars

(***************************************************************************)
(* SpecGrowth: the framed write at offsets and lengths around the page     *)
(* boundaries, on a host with MaxRegionPages pages.                        *)
(***************************************************************************)
MaxRegionPages == 4

\* offsets that put the end of the frame just below, at and just above a
\* page boundary
GrowthOffsets ==
    {0} \cup {n * WASM_PAGE_SIZE_IN_BYTES - 8 - gap : n \in 1..MaxRegionPages, gap \in {0, 1}}

GrowthData == {<<>>, <<1>>}

\* write_data_with_length_onto_the_stable_memory on the memory of memory_id:
\* Ok(()) with the pages it grew the memory by, or Err(()) with the memory
\* as it was
write_data(memory_id, stable_memory_offset, data) ==
    LET memory == get_virtual_memory(MEMORY_MANAGER, memory_id)
        free == MaxRegionPages - SumPages(MEMORY_MANAGER, DOMAIN MEMORY_MANAGER)
        written == write_data_with_length_onto_the_stable_memory(memory, stable_memory_offset, data, free)
    IN  IF ~written.ok
        THEN /\ Reply(Msg("write_data", memory_id, "Err", <<>>, 0, ""))
             /\ UNCHANGED <<DATA, STATE_SNAPSHOTS, MEMORY_MANAGER, cycle>>
        ELSE /\ MEMORY_MANAGER' = [MEMORY_MANAGER EXCEPT ![memory_id] = written.val]
             /\ Reply(Msg("write_data", memory_id, "Ok", <<>>, size(written.val) - size(memory), ""))
             /\ UNCHANGED <<DATA, STATE_SNAPSHOTS, cycle>>

\* the memories written: one that is registered for upgrades
GrowthIds == {DATA_UPGRADE_SERIALIZATION_MEMORY_ID}

NextGrowth ==
    \E memory_id \in GrowthIds, stable_memory_offset \in GrowthOffsets, data \in GrowthData :
        write_data(memory_id, stable_memory_offset, data)

SpecGrowth == Init /\ [][NextGrowth]_vars

(***************************************************************************)
(* SpecBorrow: the closures of a message, step by step.  STATE_SNAPSHOTS   *)
(* and the static are RefCells; with borrows one shared and with_mut       *)
(* borrows one exclusively for as long as its closure runs.  The codec of  *)
(* the value runs inside such closures and may call the library again.     *)
(***************************************************************************)
MaxDepth == 2

Cells == {"STATE_SNAPSHOTS", "DATA"}

Borrow(cell, kind) == [cell |-> cell, kind |-> kind]

\* the borrows of cell that the closures running hold
Holders(frames, cell) ==
    UNION {{<<i, b.kind>> : b \in {h \in frames[i].holds : h.cell = cell}} : i \in DOMAIN frames}

\* RefCell::borrow succeeds unless the cell is borrowed exclusively
borrow(frames, cell) == \A h \in Holders(frames, cell) : h[2] # "mut"

\* mutant: the exclusive borrow is not checked
borrow_mut_unchecked(frames, cell) == TRUE

\* RefCell::borrow_mut succeeds unless the cell is borrowed at all
borrow_mut(frames, cell) == Holders(frames, cell) = {}

\* the borrows an operation holds while its closure (or the codec in it) runs
Holds(op) ==
    CASE op \in {"create", "pre_upgrade"} ->
             {Borrow("STATE_SNAPSHOTS", "mut"), Borrow("DATA", "shared")}
      [] op = "load" -> {Borrow("STATE_SNAPSHOTS", "shared"), Borrow("DATA", "mut")}
      [] op = "init" -> {Borrow("STATE_SNAPSHOTS", "mut")}
      [] op \in {"post_upgrade", "with_mut"} -> {Borrow("DATA", "mut")}
      [] OTHER -> {Borrow("DATA", "shared")}

\* every borrow of the operation is granted
Granted(frames, op) ==
    \A b \in Holds(op) :
        IF b.kind = "mut" THEN borrow_mut(frames, b.cell) ELSE borrow(frames, b.cell)

\* a closure running: mgr is stable memory as the message has written it
Frame(op, memory_id, mgr) == [op |-> op, id |-> memory_id, holds |-> Holds(op), mgr |-> mgr]

\* pre_upgrade when it calls the codec of memory_id: the frames of the
\* registered ids before it are written
Before(memory_id) ==
    pre_upgrade_loop({i \in DOMAIN STATE_SNAPSHOTS : i < memory_id},
                     STATE_SNAPSHOTS, MEMORY_MANAGER, DATA)

\* the operations whose codec call is followed step by step
ClosureOps == {"create", "load", "pre_upgrade"}

\* what the code running in a closure may call: the public functions of the
\* library and with / with_mut on the static
NestedOps == {"init", "pre_upgrade", "post_upgrade", "with", "with_mut"}

\* a message of the controller begins and comes to the call of the codec:
\* forward in serialize_data_fn, backward in load_data_fn
Enter(op, memory_id) ==
    /\ running = <<>>
    /\ IF op = "pre_upgrade"
       THEN IF DOMAIN STATE_SNAPSHOTS = {}
            THEN pre_upgrade
            ELSE /\ memory_id \in DOMAIN STATE_SNAPSHOTS
                 /\ IF ~Before(memory_id).ok
                    THEN Trap(op, "out_of_memory")
                    ELSE /\ running' = <<Frame(op, memory_id, Before(memory_id).mgr)>>
                         /\ UNCHANGED <<DATA, STATE_SNAPSHOTS, MEMORY_MANAGER, last, cycle, upgrades>>
       ELSE IF memory_id \notin DOMAIN STATE_SNAPSHOTS
       THEN Trap(op, "unregistered")
       ELSE /\ running' = <<Frame(op, memory_id, MEMORY_MANAGER)>>
            /\ UNCHANGED <<DATA, STATE_SNAPSHOTS, MEMORY_MANAGER, last, cycle, upgrades>>

\* the code running in the innermost closure calls op: a borrow that is
\* refused panics and the message traps, nothing of it having taken effect
Call(op, memory_id) ==
    /\ running # <<>>
    /\ Len(running) < MaxDepth
    /\ IF op = "post_upgrade"
          /\ ~read_stable_memory_bytes_with_length(
                  get_virtual_memory(running[Len(running)].mgr, memory_id),
                  STABLE_MEMORY_HEADER_SIZE_BYTES).ok
       THEN Trap(op, "out_of_bounds")
       ELSE IF ~Granted(running, op)
       THEN Trap(op, "already_borrowed")
       ELSE /\ running' = Append(running, Frame(op, memory_id, running[Len(running)].mgr))
            /\ UNCHANGED <<DATA, STATE_SNAPSHOTS, MEMORY_MANAGER, last, cycle, upgrades>>

\* the innermost closure returns: an inner one gives its borrows back, the
\* outermost one completes the message
Return ==
    /\ running # <<>>
    /\ LET top == running[Len(running)]
       IN  IF Len(running) > 1
           THEN /\ running' = SubSeq(running, 1, Len(running) - 1)
                /\ UNCHANGED <<DATA, STATE_SNAPSHOTS, MEMORY_MANAGER, last, cycle, upgrades>>
           ELSE IF top.op = "create" THEN controller_create_state_snapshot("controller", top.id)
           ELSE IF top.op = "load" THEN controller_load_state_snapshot("controller", top.id)
           ELSE pre_upgrade

NextBorrow ==
    \/ running = <<>> /\ \E s \in Slots, memory_id \in MemoryIds : init(s, memory_id)
    \/ running = <<>> /\ CanisterCalls
    \/ running = <<>> /\ \E memory_id \in MemoryIds : controller_clear_state_snapshot("controller", memory_id)
    \/ running = <<>> /\ \E memory_id \in MemoryIds, bytes \in FewChunks :
                            controller_append_state_snapshot("controller", memory_id, bytes)
    \/ \E op \in ClosureOps, memory_id \in MemoryIds : Enter(op, memory_id)
    \/ \E op \in NestedOps, memory_id \in MemoryIds : Call(op, memory_id)
    \/ Return

SpecBorrow == Init /\ [][NextBorrow]_vars

(***************************************************************************)
(* SpecUpgrade: upgrade cycles, with strings of several lengths.           *)
(***************************************************************************)
NextUpgrade ==
    \/ LibraryCalls(MemoryIds)
    \/ CanisterCalls
    \/ \E memory_id \in MemoryIds : controller_stable_memory_grow("controller", memory_id, 1)

SpecUpgrade == Init /\ [][NextUpgrade]_vars

(***************************************************************************)
(* SpecReRegister: a canister that calls init once for each id (in         *)
(* canister_init) and may call post_upgrade at any time, also for an id    *)
(* that is registered.                                                     *)
(***************************************************************************)
ReRegisterIds == {DATA_UPGRADE_SERIALIZATION_MEMORY_ID}

NextReRegister ==
    \/ \E s \in Slots, memory_id \in ReRegisterIds \ DOMAIN STATE_SNAPSHOTS : init(s, memory_id)
    \/ pre_upgrade
    \/ \E s \in Slots, memory_id \in ReRegisterIds, OldTy \in Types, c \in Converts \cup {"None"} :
           post_upgrade(s, memory_id, OldTy, c)
    \/ \E ty \in Types : Install(ty)
    \/ DATA_UPGRADE_SERIALIZATION_MEMORY_ID \notin DOMAIN STATE_SNAPSHOTS /\ canister_init
    \/ \E value \in Byte : set_field_two(value)
    \/ \E memory_id \in ReRegisterIds : controller_create_state_snapshot("controller", memory_id)

SpecReRegister == Init /\ [][NextReRegister]_vars

(***************************************************************************)
(* SpecStaged: the library functions on every id, the canister's own       *)
(* messages, and the controller's snapshot and stable-memory methods.      *)
(***************************************************************************)
NextStaged ==
    \/ \E s \in Slots, memory_id \in MemoryIds : init(s, memory_id)
    \/ pre_upgrade
    \/ \E s \in Slots, memory_id \in MemoryIds : post_upgrade(s, memory_id, DATA.ty, "None")
    \/ Install("Data")
    \/ CanisterCalls
    \/ SnapshotCalls({"controller"}, {U64(0)}, FewChunks, Release)
    \/ \E offset \in FewOffsets :
           controller_stable_memory_read("controller", DATA_UPGRADE_SERIALIZATION_MEMORY_ID, offset, 1)
    \/ \E offset \in FewOffsets :
           controller_stable_memory_write("controller", DATA_UPGRADE_SERIALIZATION_MEMORY_ID, offset, <<1>>)
    \/ controller_stable_memory_size("controller", DATA_UPGRADE_SERIALIZATION_MEMORY_ID)
    \/ controller_stable_memory_grow("controller", DATA_UPGRADE_SERIALIZATION_MEMORY_ID, 1)

SpecStaged == Init /\ [][NextStaged]_vars

(***************************************************************************)
(* Properties.                                                             *)
(***************************************************************************)
Registered == DOMAIN STATE_SNAPSHOTS

staged(id) == STATE_SNAPSHOTS[id].snapshot

\* the codec of v's type gives v back: backward(forward(v)) = v
RoundTrips(v) ==
    LET f == forward(v)
    IN  f.ok /\ backward(v.ty, f.val) = Ok(v)

\* C1: Upgrade round-trip.  In the instance the host starts after pre_upgrade
\* ran (heap afresh, stable memory kept), post_upgrade(s, id, None) for an id
\* that was registered when pre_upgrade ran, on a static of the type that was
\* serialized and whose codec round-trips, succeeds and leaves in the static
\* the value it had when pre_upgrade ran.
C1_UpgradeRoundTrip ==
    [][\A s \in Slots, id \in MemoryIds, OldTy \in Types :
          (/\ cycle.stage = "fresh"
           /\ id \in cycle.ids
           /\ id \notin Registered
           /\ DATA.ty = cycle.v.ty
           /\ RoundTrips(cycle.v)
           /\ post_upgrade(s, id, OldTy, "None"))
          => (last'.result = "ok" /\ DATA' = cycle.v)]_vars

\* a value other than the default came back from stable memory
C1_Witness ==
    /\ cycle.stage = "fresh"
    /\ last.op = "post_upgrade" /\ last.result = "ok" /\ last.opt = "None"
    /\ last.id \in cycle.ids
    /\ DATA = cycle.v
    /\ DATA # Default(DATA.ty)

\* C2: Register-exclusive.  init on a MemoryId that is registered traps and
\* leaves the registry (its ids, every staged buffer, every closure) as it
\* was; init on a MemoryId that is not registered adds an entry with an empty
\* staged buffer and changes no other entry.
C2_RegisterExclusive ==
    [][\A s \in Slots, id \in MemoryIds :
          init(s, id) =>
              IF id \in Registered
              THEN last'.result = "already_registered" /\ STATE_SNAPSHOTS' = STATE_SNAPSHOTS
              ELSE /\ last'.result = "ok"
                   /\ DOMAIN STATE_SNAPSHOTS' = Registered \cup {id}
                   /\ STATE_SNAPSHOTS'[id].snapshot = <<>>
                   /\ STATE_SNAPSHOTS'[id].s = s
                   /\ \A other \in Registered : STATE_SNAPSHOTS'[other] = STATE_SNAPSHOTS[other]]_vars

\* the second init of a MemoryId trapped, and a staged snapshot was at stake
C2_Witness ==
    /\ last.result = "already_registered"
    /\ \E id \in Registered : staged(id) # <<>>

\* C3: Snapshot round-trip.  controller_create_state_snapshot(id) leaves the
\* value as it is, and a controller_load_state_snapshot(id) that follows it
\* (no message but trapped ones in between), for a value whose codec
\* round-trips, succeeds and leaves the value as it was before the create.
C3_SnapshotRoundTrip ==
    [][\A id \in MemoryIds :
          /\ (controller_create_state_snapshot("controller", id) => DATA' = DATA)
          /\ (/\ cycle.stage = "created" /\ cycle.ids = {id}
              /\ RoundTrips(cycle.v)
              /\ controller_load_state_snapshot("controller", id))
             => (last'.result = "ok" /\ DATA' = cycle.v)]_vars

\* a load that followed the create of a snapshot of a value that is not the
\* default, over a staged snapshot of another value
C3_Witness ==
    /\ cycle.stage = "reloaded"
    /\ last.op = "load" /\ last.result = "ok" /\ last.id \in cycle.ids
    /\ DATA = cycle.v
    /\ DATA # Default(DATA.ty)

\* C4: Schema-migration round-trip.  When pre_upgrade ran on a value old of
\* the old type, post_upgrade(s, id, Some(convert)) with OldData the old type
\* succeeds in the new instance and sets the static to convert(old): the
\* bytes are decoded by the old type's backward, whatever the new type is.
C4_SchemaMigration ==
    [][\A s \in Slots, id \in MemoryIds, c \in Converts :
          (/\ cycle.stage = "fresh"
           /\ id \in cycle.ids
           /\ id \notin Registered
           /\ RoundTrips(cycle.v)
           /\ post_upgrade(s, id, cycle.v.ty, c))
          => (last'.result = "ok" /\ DATA' = old_as_new_convert(c, cycle.v, DATA.ty))]_vars

\* an OldData value written by the old instance became a Data value that the
\* conversion made of it
C4_Witness ==
    /\ cycle.stage = "fresh"
    /\ last.op = "post_upgrade" /\ last.result = "ok" /\ last.opt \in Converts
    /\ last.id \in cycle.ids
    /\ cycle.v.ty = "OldData" /\ DATA.ty = "Data"
    /\ DATA = old_as_new_convert(last.opt, cycle.v, "Data")

\* C5: Chunked upload is identity.  From controller_clear_state_snapshot(id)
\* on, while the chunks S1, ..., Sn are appended to id (whatever other
\* messages come in between, no create, clear or pre_upgrade), the staged
\* snapshot of id is S1 \o ... \o Sn, for every way of cutting the bytes; and
\* a controller_load_state_snapshot(id) then succeeds whenever these bytes
\* decode, and sets the value to what they decode to.
C5_ChunkedUpload ==
    [][/\ cycle'.stage = "uploading" =>
              \A id \in cycle'.ids :
                  /\ id \in DOMAIN STATE_SNAPSHOTS'
                  /\ STATE_SNAPSHOTS'[id].snapshot = cycle'.bytes
       /\ \A id \in MemoryIds :
              (/\ cycle.stage = "uploading" /\ cycle.ids = {id}
               /\ backward(DATA.ty, cycle.bytes).ok
               /\ controller_load_state_snapshot("controller", id))
              => (last'.result = "ok" /\ DATA' = backward(DATA.ty, cycle.bytes).val)]_vars

\* a value was loaded from three bytes, which took two chunks or more to upload
C5_Witness ==
    /\ cycle.stage = "uploaded"
    /\ last.op = "load" /\ last.result = "ok" /\ last.id \in cycle.ids
    /\ Len(cycle.bytes) = 3
    /\ staged(last.id) = cycle.bytes
    /\ DATA = backward(DATA.ty, cycle.bytes).val

\* the bytes offset .. offset + length of a snapshot, counted from 0
Projection(snapshot, offset, length) == [i \in 1..length |-> snapshot[offset + i]]

\* the offsets and lengths within a snapshot of L bytes
InRange(L) == {p \in (0..L) \X (0..L) : p[1] + p[2] <= L}

\* C6: Chunked download is a projection.  In every state and for every
\* registered id, a download of offset and length with
\* offset + length <= len(staged) does not trap and yields the bytes
\* offset .. offset + length of the staged snapshot, in every build, and
\* the replies of downloads that cut 0 .. L in three consecutive ranges,
\* for every such cut, make the staged snapshot when put one after the
\* other; a download step within the snapshot (the builds agreeing on it,
\* the deployed one stands for all) replies exactly these bytes, and a
\* download step leaves every staged snapshot as it is.
C6_ChunkedDownload ==
    /\ [](\A id \in Registered :
              LET S == staged(id)
                  L == Len(S)
              IN  /\ \A p \in InRange(L), build \in Builds :
                         download_reply(S, U64(p[1]), U64(p[2]), build) = Ok(Projection(S, p[1], p[2]))
                  /\ \A a \in 0..L, b \in 0..L, build \in Builds :
                         a <= b =>
                             download_reply(S, U64(0), U64(a), build).val
                                 \o download_reply(S, U64(a), U64(b - a), build).val
                                 \o download_reply(S, U64(b), U64(L - b), build).val = S)
    /\ [][last'.op = "download" =>
              /\ STATE_SNAPSHOTS' = STATE_SNAPSHOTS
              /\ LET S == staged(last'.id)
                 IN  \A p \in InRange(Len(S)), build \in Release :
                         controller_download_state_snapshot("controller", last'.id, U64(p[1]), U64(p[2]), build)
                         => last' = Msg("download", last'.id, "ok", Projection(S, p[1], p[2]), 0, "")]_vars

\* a download replied the end of a staged snapshot, from an offset that is not 0
C6_Witness ==
    /\ last.op = "download" /\ last.result = "ok"
    /\ last.id \in Registered
    /\ Len(last.bytes) = 2
    /\ Len(staged(last.id)) = 3
    /\ last.bytes = SubSeq(staged(last.id), 2, 3)

\* C7: Authorization.  Each of the nine controller methods, called by a
\* caller that is not a controller, traps for that reason, whatever its
\* arguments and whether or not the MemoryId is registered; the static, the
\* registry and the stable memories are left as they were and there is no
\* reply.
StrangerCall(id) ==
    \/ controller_create_state_snapshot("stranger", id)
    \/ \E offset \in FewArgs, length \in FewArgs, build \in Release :
           controller_download_state_snapshot("stranger", id, offset, length, build)
    \/ controller_clear_state_snapshot("stranger", id)
    \/ \E bytes \in FewChunks : controller_append_state_snapshot("stranger", id, bytes)
    \/ controller_load_state_snapshot("stranger", id)
    \/ \E offset \in FewOffsets : controller_stable_memory_read("stranger", id, offset, 1)
    \/ \E offset \in FewOffsets : controller_stable_memory_write("stranger", id, offset, <<1>>)
    \/ controller_stable_memory_size("stranger", id)
    \/ controller_stable_memory_grow("stranger", id, 1)

C7_Authorization ==
    [][\A id \in MemoryIds :
          StrangerCall(id) =>
              /\ last' = Msg("trap", -1, "unauthorized", <<>>, 0, "")
              /\ UNCHANGED <<DATA, STATE_SNAPSHOTS, MEMORY_MANAGER>>]_vars

\* a stranger's call trapped on a canister with a staged snapshot and a
\* stable memory that its methods could have changed
C7_Witness ==
    /\ last.result = "unauthorized"
    /\ \E id \in Registered : staged(id) # <<>>
    /\ \E id \in MemoryIds : size(MEMORY_MANAGER[id]) > 0

\* eight bytes spell the number n < 2^31, most significant byte first
BigEndian(b, n) ==
    /\ b[1] = 0 /\ b[2] = 0 /\ b[3] = 0 /\ b[4] = 0 /\ b[5] < 128
    /\ ((b[5] * 256 + b[6]) * 256 + b[7]) * 256 + b[8] = n

\* the bytes of a memory that are not 0 and lie outside the frame of a blob
\* of L bytes
OutsideFrame(memory, L) ==
    [a \in {x \in DOMAIN memory.bytes :
                \/ x < STABLE_MEMORY_HEADER_SIZE_BYTES
                \/ x >= STABLE_MEMORY_HEADER_SIZE_BYTES + 8 + L} |-> memory.bytes[a]]

\* C8: Region framing.  In the state a successful pre_upgrade leaves, for
\* every registered id the region of id is large enough to hold, and holds,
\* at bytes 1024 .. 1032 the big-endian length L of forward(value) and at
\* bytes 1032 .. 1032 + L the bytes of forward(value), and reading the
\* framed blob at 1024 gives back exactly forward(value), for the value as
\* it was when pre_upgrade ran; pre_upgrade writes in these bytes only, and
\* not at all in the memory of an id that is not registered.
C8_RegionFraming ==
    /\ []((last.op = "pre_upgrade" /\ last.result = "ok") =>
            \A id \in Registered :
                LET region == get_virtual_memory(MEMORY_MANAGER, id)
                    F == forward(cycle.v).val
                    L == Len(F)
                IN  /\ cycle.stage = "pre" /\ cycle.v = DATA /\ forward(cycle.v).ok
                    /\ InBounds(region, STABLE_MEMORY_HEADER_SIZE_BYTES, 8 + L)
                    /\ BigEndian(read(region, STABLE_MEMORY_HEADER_SIZE_BYTES, 8), L)
                    /\ read(region, STABLE_MEMORY_HEADER_SIZE_BYTES + 8, L) = F
                    /\ read_stable_memory_bytes_with_length(region, STABLE_MEMORY_HEADER_SIZE_BYTES) = Ok(F))
    /\ [][(last'.op = "pre_upgrade" /\ last'.result = "ok") =>
              \A id \in MemoryIds :
                  IF id \in Registered
                  THEN OutsideFrame(MEMORY_MANAGER'[id], Len(forward(DATA).val))
                           = OutsideFrame(MEMORY_MANAGER[id], Len(forward(DATA).val))
                  ELSE MEMORY_MANAGER'[id] = MEMORY_MANAGER[id]]_vars

\* pre_upgrade framed a value other than the default in two regions
C8_Witness ==
    /\ last.op = "pre_upgrade" /\ last.result = "ok"
    /\ Registered = MemoryIds
    /\ DATA.ty = "Data" /\ DATA # Default("Data") /\ DATA.field_one = HiWorld.field_one
    /\ \A id \in Registered :
           read_stable_memory_bytes_with_length(
               get_virtual_memory(MEMORY_MANAGER, id), STABLE_MEMORY_HEADER_SIZE_BYTES) = Ok(forward(DATA).val)

\* the exact sum offset + length is more than n
TrueSumExceeds(offset, length, n) ==
    LET s1 == offset[1] + length[1]
        s2 == offset[2] + length[2] + (s1 \div Limb)
        s3 == offset[3] + length[3] + (s2 \div Limb)
        s4 == offset[4] + length[4] + (s3 \div Limb)
    IN  s4 # 0 \/ s3 % Limb # 0 \/ s2 % Limb # 0 \/ s1 % Limb > n

\* C9: Out-of-range download traps.  A download whose offset + length, summed
\* exactly, is more than len(staged) traps with an out-of-range error and
\* replies no bytes, also when the u64 sum or the conversion to usize wraps.
C9_OutOfRangeTraps ==
    [][last'.op = "download" =>
          \A id \in Registered, offset \in DownloadArgs, length \in DownloadArgs, build \in Builds :
              (/\ TrueSumExceeds(offset, length, Len(staged(id)))
               /\ controller_download_state_snapshot("controller", id, offset, length, build))
              => (last'.op = "trap" /\ last'.result = "out_of_range")]_vars

\* a step changes the staged snapshot of id, registered before and after it
StagedChanges(id) ==
    /\ id \in Registered
    /\ id \in DOMAIN STATE_SNAPSHOTS'
    /\ STATE_SNAPSHOTS'[id].snapshot # STATE_SNAPSHOTS[id].snapshot

\* a step is a create, clear or append of the snapshot of id
SnapshotOrUpload(id) ==
    \E caller \in Callers :
        \/ controller_create_state_snapshot(caller, id)
        \/ controller_clear_state_snapshot(caller, id)
        \/ \E bytes \in SeqsUpTo(MaxSnapshotLen) :
               controller_append_state_snapshot(caller, id, bytes)

\* C10, as claimed: the staged snapshot of an id changes only in a create,
\* clear or append of that id.
C10_StagedOnlyBySnapshotOrUpload ==
    [][\A id \in MemoryIds : StagedChanges(id) => SnapshotOrUpload(id)]_vars

\* C10, amended: the staged snapshot of an id changes only in a create, clear
\* or append of that id and in pre_upgrade, which sets the staged snapshot of
\* every registered id to forward(value).
C10_StagedFrame ==
    [][\A id \in MemoryIds :
          StagedChanges(id) =>
              \/ SnapshotOrUpload(id)
              \/ /\ pre_upgrade
                 /\ \A other \in Registered :
                        STATE_SNAPSHOTS'[other].snapshot = forward(DATA).val]_vars

\* pre_upgrade replaced a staged snapshot that an upload had built
C10_Witness ==
    /\ last.op = "pre_upgrade" /\ last.result = "ok"
    /\ cycle.stage = "pre" /\ cycle.bytes # <<>>
    /\ Registered = MemoryIds
    /\ \A id \in Registered : staged(id) = forward(DATA).val /\ staged(id) # cycle.bytes
    /\ DATA.ty = "Data"

\* the bytes of the reserved header of a memory that are not 0
Header(memory) ==
    [a \in {x \in DOMAIN memory.bytes : x < STABLE_MEMORY_HEADER_SIZE_BYTES} |-> memory.bytes[a]]

\* C11: Reserved header untouched.  A step that changes a byte below 1024
\* of the memory of a MemoryId is a controller_stable_memory_write on that
\* MemoryId: init, pre_upgrade, post_upgrade and the five snapshot methods
\* (and every other message) leave the first 1024 bytes of every memory as
\* they were.
C11_HeaderUntouched ==
    [][\A id \in MemoryIds :
          Header(MEMORY_MANAGER'[id]) # Header(MEMORY_MANAGER[id])
          => \E offset \in FewOffsets :
                 controller_stable_memory_write("controller", id, offset, <<1>>)]_vars

\* pre_upgrade framed a value next to a header whose last byte was written
C11_Witness ==
    /\ last.op = "pre_upgrade" /\ last.result = "ok"
    /\ \E id \in Registered :
           /\ ByteAt(MEMORY_MANAGER[id], STABLE_MEMORY_HEADER_SIZE_BYTES - 1) = 1
           /\ read_stable_memory_bytes_with_length(MEMORY_MANAGER[id], STABLE_MEMORY_HEADER_SIZE_BYTES)
                  = Ok(forward(DATA).val)
           /\ forward(DATA).val # <<>>

\* the capacity of a memory in bytes
Capacity(memory) == size(memory) * WASM_PAGE_SIZE_IN_BYTES

\* the pages the host has left
FreeRegionPages == MaxRegionPages - SumPages(MEMORY_MANAGER, DOMAIN MEMORY_MANAGER)

\* the smallest count of pages that, added to a memory of pages pages, holds
\* bytes bytes
SmallestPages(pages, bytes) ==
    CHOOSE k \in 0..((bytes \div WASM_PAGE_SIZE_IN_BYTES) + 1) :
        /\ (pages + k) * WASM_PAGE_SIZE_IN_BYTES >= bytes
        /\ \A j \in 0..(k - 1) : (pages + j) * WASM_PAGE_SIZE_IN_BYTES < bytes

\* C12: Page growth boundary.  A framed write of data at offset needs
\* want = offset + 8 + len(data) bytes.  When the capacity of the memory is
\* less than want and the host has the pages, the memory grows, in one
\* step, by the smallest count of pages k with
\* (size + k) * 65536 >= want + 1; when the capacity is want or more the
\* memory does not grow and the write succeeds; after a successful write
\* the capacity is at least want.
C12_PageGrowthBoundary ==
    [][\A id \in GrowthIds, offset \in GrowthOffsets, data \in GrowthData :
          write_data(id, offset, data) =>
              LET memory == MEMORY_MANAGER[id]
                  want == offset + 8 + Len(data)
                  k == SmallestPages(size(memory), want + 1)
              IN  /\ Capacity(memory) >= want
                     => (last'.result = "Ok" /\ size(MEMORY_MANAGER'[id]) = size(memory))
                  /\ (Capacity(memory) < want /\ k <= FreeRegionPages)
                     => (last'.result = "Ok" /\ size(MEMORY_MANAGER'[id]) = size(memory) + k)
                  /\ last'.result = "Ok" => Capacity(MEMORY_MANAGER'[id]) >= want
                  /\ \A other \in MemoryIds \ {id} : MEMORY_MANAGER'[other] = MEMORY_MANAGER[other]]_vars

\* a frame that ends exactly at the end of the first page grew an empty
\* memory by two pages
C12_Witness ==
    /\ last.op = "write_data" /\ last.result = "Ok" /\ last.num = 2
    /\ size(MEMORY_MANAGER[last.id]) = 2
    /\ read_stable_memory_bytes_with_length(MEMORY_MANAGER[last.id], WASM_PAGE_SIZE_IN_BYTES - 9) = Ok(<<1>>)

\* the quotient of a by b, rounded up
CeilDiv(a, b) == (a + b - 1) \div b

\* C13, as claimed: whenever the capacity is less than the bytes needed, the
\* memory is grown by ceil((needed - capacity) / 65536) + 1 pages.
C13_GrowthCeilPlusOne ==
    [][\A id \in GrowthIds, offset \in GrowthOffsets, data \in GrowthData :
          (/\ write_data(id, offset, data)
           /\ Capacity(MEMORY_MANAGER[id]) < offset + 8 + Len(data)
           /\ last'.result = "Ok")
          => size(MEMORY_MANAGER'[id]) - size(MEMORY_MANAGER[id])
                 = CeilDiv(offset + 8 + Len(data) - Capacity(MEMORY_MANAGER[id]), WASM_PAGE_SIZE_IN_BYTES) + 1]_vars

\* C13, amended: whenever the capacity is less than the bytes needed, grow
\* is asked for floor((needed - capacity) / 65536) + 1 pages; the operation
\* fails exactly when grow returns -1 (the host has fewer pages left), and
\* then the memory is as it was; otherwise the memory is grown by exactly
\* that count.
C13_GrowthFloorPlusOne ==
    [][\A id \in GrowthIds, offset \in GrowthOffsets, data \in GrowthData :
          (/\ write_data(id, offset, data)
           /\ Capacity(MEMORY_MANAGER[id]) < offset + 8 + Len(data))
          => LET memory == MEMORY_MANAGER[id]
                 pages == ((offset + 8 + Len(data) - Capacity(memory)) \div WASM_PAGE_SIZE_IN_BYTES) + 1
             IN  /\ last'.result = "Err" <=> pages > FreeRegionPages
                 /\ last'.result = "Err" => MEMORY_MANAGER' = MEMORY_MANAGER
                 /\ last'.result = "Ok" => size(MEMORY_MANAGER'[id]) = size(memory) + pages]_vars

\* a memory of one page grew by one page for a frame that ends one byte
\* beyond its capacity
C13_Witness ==
    /\ last.op = "write_data" /\ last.result = "Ok" /\ last.num = 1
    /\ size(MEMORY_MANAGER[last.id]) = 2
    /\ read_stable_memory_bytes_with_length(MEMORY_MANAGER[last.id], WASM_PAGE_SIZE_IN_BYTES - 8) = Ok(<<1>>)

\* C14: Snapshot reads the current value.  controller_create_state_snapshot
\* on a registered MemoryId, whatever was staged and whatever the value has
\* become since init, sets the staged snapshot of that MemoryId to
\* forward(value) of the value as it is now, replies the length of it and
\* leaves the value and every other staged snapshot as they were; init
\* leaves the value in the static.
C14_SnapshotReadsCurrentValue ==
    [][\A id \in MemoryIds :
          /\ (id \in Registered /\ controller_create_state_snapshot("controller", id))
             => /\ forward(DATA).ok
                /\ STATE_SNAPSHOTS' = [STATE_SNAPSHOTS EXCEPT ![id].snapshot = forward(DATA).val]
                /\ last' = Msg("create", id, "ok", <<>>, Len(forward(DATA).val), "")
                /\ DATA' = DATA
          /\ \A s \in Slots : init(s, id) => DATA' = DATA]_vars

\* after the #[init] hook and set_field_two(1) a snapshot was created: it is
\* the ten bytes of the value as set_field_two left it
C14_Witness ==
    /\ last.op = "create" /\ last.result = "ok" /\ last.num = 10
    /\ cycle.stage = "created" /\ cycle.v = DATA
    /\ DATA = [HiWorld EXCEPT !.field_two = 1]
    /\ staged(last.id) = <<8, 72, 105, 32, 87, 111, 114, 108, 100, 1>>

\* a step is a call by the controller of one of the five snapshot methods
\* on id
SnapshotCall(id) ==
    \/ controller_create_state_snapshot("controller", id)
    \/ \E offset \in FewArgs, length \in FewArgs, build \in Release :
           controller_download_state_snapshot("controller", id, offset, length, build)
    \/ controller_clear_state_snapshot("controller", id)
    \/ \E bytes \in FewChunks : controller_append_state_snapshot("controller", id, bytes)
    \/ controller_load_state_snapshot("controller", id)

\* C15: Unknown id.  Each of the five snapshot methods, called by the
\* controller on a MemoryId that is not registered, traps for that reason
\* and the registry, the value and the memories are as they were.  The four
\* stable-memory methods ask for no registration: on such a MemoryId size
\* replies the pages of its memory (0 for a memory never grown), grow
\* replies, and read and write within the memory reply.
C15_UnknownId ==
    [][\A id \in MemoryIds \ Registered :
          /\ SnapshotCall(id)
             => /\ last' = Msg("trap", -1, "unregistered", <<>>, 0, "")
                /\ UNCHANGED <<DATA, STATE_SNAPSHOTS, MEMORY_MANAGER>>
          /\ controller_stable_memory_size("controller", id)
             => /\ last' = Msg("stable_size", id, "ok", <<>>, size(MEMORY_MANAGER[id]), "")
                /\ MEMORY_MANAGER[id] = EmptyMemory => last'.num = 0
          /\ controller_stable_memory_grow("controller", id, 1)
             => (last'.op = "stable_grow" /\ last'.result = "ok")
          /\ \A offset \in FewOffsets :
                 /\ InBounds(MEMORY_MANAGER[id], offset, 1)
                 /\ \/ controller_stable_memory_read("controller", id, offset, 1)
                    \/ controller_stable_memory_write("controller", id, offset, <<1>>)
                 => (last'.op \in {"stable_read", "stable_write"} /\ last'.result = "ok")]_vars

\* a snapshot method trapped on a MemoryId without an entry, on a canister
\* that has registered another and grown the memory of the one without
C15_Witness ==
    /\ last.result = "unregistered"
    /\ Registered # {}
    /\ \E id \in MemoryIds \ Registered : size(MEMORY_MANAGER[id]) > 0

\* forward(v) is the byte string of no bytes
EmptyPayload(v) == forward(v).ok /\ forward(v).val = <<>>

\* C16: Empty payload boundary.  For a value v with forward(v) of no bytes:
\* a successful pre_upgrade writes eight zero bytes (length 0) at 1024 of
\* the memory of every registered id, and reading the framed blob there
\* gives the empty string; post_upgrade(s, id, None) in the fresh instance
\* decodes it and restores v; controller_create_state_snapshot stages the
\* empty string and replies 0; a download of offset 0 and length 0 from an
\* empty staged snapshot replies the empty string in every build; and a load
\* that follows a clear with no append decodes the empty string.
C16_EmptyPayload ==
    [][\A id \in MemoryIds :
          /\ (EmptyPayload(DATA) /\ id \in Registered /\ pre_upgrade /\ last'.result = "ok")
             => /\ read(MEMORY_MANAGER'[id], STABLE_MEMORY_HEADER_SIZE_BYTES, 8) = <<0, 0, 0, 0, 0, 0, 0, 0>>
                /\ read_stable_memory_bytes_with_length(MEMORY_MANAGER'[id], STABLE_MEMORY_HEADER_SIZE_BYTES)
                       = Ok(<<>>)
          /\ \A s \in Slots, OldTy \in Types :
                 (/\ cycle.stage = "fresh" /\ id \in cycle.ids /\ id \notin Registered
                  /\ EmptyPayload(cycle.v) /\ DATA.ty = cycle.v.ty
                  /\ post_upgrade(s, id, OldTy, "None"))
                 => (last'.result = "ok" /\ DATA' = cycle.v /\ DATA' = backward(DATA.ty, <<>>).val)
          /\ (EmptyPayload(DATA) /\ id \in Registered /\ controller_create_state_snapshot("controller", id))
             => (last' = Msg("create", id, "ok", <<>>, 0, "") /\ STATE_SNAPSHOTS'[id].snapshot = <<>>)
          /\ \A build \in Builds :
                 (/\ id \in Registered /\ staged(id) = <<>>
                  /\ controller_download_state_snapshot("controller", id, U64(0), U64(0), build))
                 => last' = Msg("download", id, "ok", <<>>, 0, "")
          /\ (/\ cycle.stage = "uploading" /\ cycle.ids = {id} /\ cycle.bytes = <<>>
              /\ id \in Registered /\ EmptyPayload(Default(STATE_SNAPSHOTS[id].Data))
              /\ controller_load_state_snapshot("controller", id))
             => (last'.result = "ok" /\ DATA' = backward(STATE_SNAPSHOTS[id].Data, <<>>).val)]_vars

\* post_upgrade restored a value of no bytes from a frame of length 0
C16_Witness ==
    /\ cycle.stage = "fresh" /\ EmptyPayload(cycle.v)
    /\ last.op = "post_upgrade" /\ last.result = "ok" /\ last.opt = "None"
    /\ last.id \in cycle.ids
    /\ DATA = cycle.v
    /\ read_stable_memory_bytes_with_length(MEMORY_MANAGER[last.id], STABLE_MEMORY_HEADER_SIZE_BYTES) = Ok(<<>>)

\* the staged snapshot of id is one that the backward of its type rejects
Undecodable(id) == ~backward(STATE_SNAPSHOTS[id].Data, staged(id)).ok

\* C17: Failed load changes nothing.  controller_load_state_snapshot on a
\* registered id whose staged snapshot backward rejects traps, and the
\* value, the registry with every staged snapshot, the memories and a
\* transfer under way are what they were.  In the state the trap leaves, a
\* clear of that id empties its staged snapshot, and in the upload the clear
\* begins every append adds its chunk and a load of bytes that decode sets
\* the value to what they decode to.
C17_FailedLoad ==
    [][\A id \in Registered :
          /\ (Undecodable(id) /\ controller_load_state_snapshot("controller", id))
             => /\ last' = Msg("trap", -1, "codec", <<>>, 0, "")
                /\ UNCHANGED <<DATA, STATE_SNAPSHOTS, MEMORY_MANAGER, cycle>>
          /\ (last.result = "codec" /\ controller_clear_state_snapshot("controller", id))
             => (last'.result = "ok" /\ STATE_SNAPSHOTS'[id].snapshot = <<>>
                 /\ cycle'.stage = "uploading" /\ cycle'.ids = {id})
          /\ (cycle.stage = "uploading" /\ cycle.ids = {id})
             => /\ \A bytes \in Chunks :
                       (/\ Len(staged(id)) + Len(bytes) <= MaxSnapshotLen
                        /\ controller_append_state_snapshot("controller", id, bytes))
                       => (last'.result = "ok" /\ STATE_SNAPSHOTS'[id].snapshot = staged(id) \o bytes)
                /\ (~Undecodable(id) /\ controller_load_state_snapshot("controller", id))
                   => (last'.result = "ok"
                       /\ DATA' = backward(STATE_SNAPSHOTS[id].Data, staged(id)).val)]_vars

\* a load trapped on staged bytes that do not decode, with a value in the
\* static that is not the default
C17_Witness ==
    /\ last.result = "codec"
    /\ \E id \in Registered : Undecodable(id) /\ staged(id) # <<>>
    /\ DATA # Default(DATA.ty)

\* C18: Re-registration after an upgrade.  A successful post_upgrade of id,
\* with or without a conversion, leaves id registered with an empty staged
\* snapshot and closures over the type of the static (the new type); every
\* registered entry has closures over that type, so that a
\* controller_create_state_snapshot that follows stages forward of the new
\* type of the value as it is; and in the next upgrade cycle
\* post_upgrade(s, id, None) restores the value pre_upgrade wrote by the
\* backward of the new type, whatever old type it is called with.
C18_ReRegistration ==
    [][\A id \in MemoryIds :
          /\ (last'.op = "post_upgrade" /\ last'.result = "ok")
             => \A s \in Slots, OldTy \in Types, c \in Converts \cup {"None"} :
                    post_upgrade(s, id, OldTy, c)
                    => /\ id \notin Registered
                       /\ STATE_SNAPSHOTS' = Insert(STATE_SNAPSHOTS, id, SnapshotData(s, DATA'.ty))
                       /\ STATE_SNAPSHOTS'[id].snapshot = <<>>
          /\ (id \in Registered /\ last'.op = "create"
              /\ controller_create_state_snapshot("controller", id))
             => /\ STATE_SNAPSHOTS[id].Data = DATA.ty
                /\ STATE_SNAPSHOTS'[id].snapshot = forward(DATA).val
          /\ (/\ cycle.stage = "fresh" /\ id \in cycle.ids /\ DATA.ty = cycle.v.ty
              /\ id \notin Registered)
             => \A s \in Slots, OldTy \in Types :
                    post_upgrade(s, id, OldTy, "None")
                    => /\ last'.result = "ok"
                       /\ DATA' = backward(DATA.ty, forward(cycle.v).val).val
                       /\ DATA' = cycle.v]_vars

\* a post_upgrade with a conversion from the old type registered the id for
\* the new type, with nothing staged and the converted value in the static
C18_Witness ==
    /\ last.op = "post_upgrade" /\ last.result = "ok" /\ last.opt \in Converts
    /\ cycle.stage = "fresh" /\ cycle.v.ty = "OldData"
    /\ last.id \in Registered
    /\ STATE_SNAPSHOTS[last.id] = SnapshotData("DATA", "Data")
    /\ DATA.ty = "Data" /\ DATA # Default("Data")

\* the operations the five snapshot methods and the four stable-memory
\* methods reply as
SnapshotOps == {"create", "download", "clear", "append", "load"}

StableMemoryOps == {"stable_read", "stable_write", "stable_size", "stable_grow"}

\* C19: Separation of heap staging and stable memory.  A step of one of the
\* five snapshot methods leaves every memory, its bytes and its size, as it
\* was; a step of one of the four stable-memory methods leaves the
\* registry, the value and every staged snapshot as they were; create,
\* download, clear and append leave the value as it was; and a call of any
\* of the nine that traps leaves all of them as they were.
C19_Separation ==
    [][/\ last'.op \in SnapshotOps => MEMORY_MANAGER' = MEMORY_MANAGER
       /\ last'.op \in StableMemoryOps => (DATA' = DATA /\ STATE_SNAPSHOTS' = STATE_SNAPSHOTS)
       /\ last'.op \in SnapshotOps \ {"load"} => DATA' = DATA
       /\ last'.op = "trap" => UNCHANGED <<DATA, STATE_SNAPSHOTS, MEMORY_MANAGER>>
       /\ \A id \in MemoryIds, bytes \in FewChunks :
              controller_append_state_snapshot("controller", id, bytes)
              => MEMORY_MANAGER' = MEMORY_MANAGER]_vars

\* a chunk was appended to the staged snapshot of a MemoryId whose memory
\* holds a frame of other bytes and a written header
C19_Witness ==
    /\ last.op = "append" /\ last.result = "ok"
    /\ last.id \in Registered
    /\ LET memory == MEMORY_MANAGER[last.id]
           framed == read_stable_memory_bytes_with_length(memory, STABLE_MEMORY_HEADER_SIZE_BYTES)
       IN  /\ ByteAt(memory, STABLE_MEMORY_HEADER_SIZE_BYTES - 1) = 1
           /\ framed.ok /\ framed.val # <<>> /\ framed.val # staged(last.id)

\* no cell is borrowed exclusively by one closure and, at the same time, by
\* another, shared or exclusively
NoAliasing ==
    \A cell \in Cells :
        LET held == Holders(running, cell)
        IN  (\E h \in held : h[2] = "mut") => Cardinality(held) = 1

\* the step is a trap that took no effect
Trapped ==
    /\ last'.op = "trap"
    /\ running' = <<>>
    /\ UNCHANGED <<DATA, STATE_SNAPSHOTS, MEMORY_MANAGER>>

\* C20: Reentrancy is caught.  While the serialize closure of
\* controller_create_state_snapshot or of pre_upgrade runs (the registry
\* borrowed exclusively), a call out of it of init, pre_upgrade or
\* post_upgrade traps and takes no effect; while the load closure of
\* controller_load_state_snapshot runs (the registry borrowed shared, the
\* static exclusively), a call out of it of init, pre_upgrade or
\* post_upgrade, or of with or with_mut on the static, traps and takes no
\* effect; and in no state is the registry or the static borrowed
\* exclusively and, at the same time, borrowed again.
C20_ReentrancyCaught ==
    /\ [](NoAliasing)
    /\ [][running # <<>> =>
             \A op \in NestedOps, id \in MemoryIds :
                 LET outer == running[1]
                 IN  /\ (/\ outer.op \in {"create", "pre_upgrade"}
                         /\ op \in {"init", "pre_upgrade", "post_upgrade"}
                         /\ Call(op, id))
                        => Trapped
                     /\ (outer.op = "load" /\ Call(op, id)) => Trapped]_vars

\* a call out of a closure trapped on a refused borrow, on a canister with a
\* staged snapshot
C20_Witness ==
    /\ last.op = "trap" /\ last.result = "already_borrowed"
    /\ running = <<>>
    /\ \E id \in Registered : staged(id) # <<>>

\* the bytes of the region of id that lie beyond the blob pre_upgrade wrote
\* last: what an earlier, longer blob left there
StaleBytes(id) ==
    {a \in DOMAIN MEMORY_MANAGER[id].bytes :
        a >= STABLE_MEMORY_HEADER_SIZE_BYTES + 8 + Len(forward(cycle.v).val)}

\* C21: Latest upgrade wins.  After any mutations and upgrade cycles, the
\* blob read back from the region of an id that was registered at the most
\* recent successful pre_upgrade is exactly what that pre_upgrade serialized,
\* whatever an earlier, longer blob left beyond it; post_upgrade(s, id, None)
\* in the instance started after it succeeds and restores the value of that
\* pre_upgrade; and no step makes a region smaller.
C21_LatestUpgradeWins ==
    /\ [](cycle.stage \in {"pre", "fresh"} =>
            \A id \in cycle.ids :
                read_stable_memory_bytes_with_length(
                    get_virtual_memory(MEMORY_MANAGER, id),
                    STABLE_MEMORY_HEADER_SIZE_BYTES) = forward(cycle.v))
    /\ [][/\ \A id \in MemoryIds :
                size(MEMORY_MANAGER'[id]) >= size(MEMORY_MANAGER[id])
          /\ (cycle.stage = "fresh" /\ DATA.ty = cycle.v.ty /\ RoundTrips(cycle.v)) =>
                \A id \in cycle.ids \ Registered :
                    (\E s \in Slots, OldTy \in Types : post_upgrade(s, id, OldTy, "None"))
                    => (last'.result = "ok" /\ DATA' = cycle.v /\ id \in Registered')]_vars

\* a value other than the default came back from a region that holds, beyond
\* the blob, bytes of the longer blob of an earlier upgrade
C21_Witness ==
    /\ cycle.stage = "fresh"
    /\ last.op = "post_upgrade" /\ last.result = "ok" /\ last.opt = "None"
    /\ last.id \in cycle.ids
    /\ DATA = cycle.v
    /\ DATA # Default(DATA.ty)
    /\ StaleBytes(last.id) # {}

\* the value post_upgrade(s, id, OldTy, c) assigns to the static before its
\* registration step, when the blob of id reads and decodes
Assigned(id, OldTy, c) ==
    LET stable_data == read_stable_memory_bytes_with_length(
                           get_virtual_memory(MEMORY_MANAGER, id),
                           STABLE_MEMORY_HEADER_SIZE_BYTES)
    IN  IF ~stable_data.ok THEN Err
        ELSE post_upgrade_value(stable_data.val, DATA.ty, OldTy, c)

\* C22, as claimed: post_upgrade on an id that is registered in the running
\* instance traps at its registration step, and the message leaves the
\* value and the registry as they were.
C22_TrapsAtRegistration ==
    [][last'.op = "trap" =>
          \A id \in Registered, s \in Slots, OldTy \in Types, c \in Converts \cup {"None"} :
              post_upgrade(s, id, OldTy, c)
              => /\ last'.result = "already_registered"
                 /\ DATA' = DATA
                 /\ STATE_SNAPSHOTS' = STATE_SNAPSHOTS]_vars

\* the frame of id reads: the region holds the eight bytes of a length and
\* as many bytes as it says
Reads(id) ==
    read_stable_memory_bytes_with_length(
        get_virtual_memory(MEMORY_MANAGER, id), STABLE_MEMORY_HEADER_SIZE_BYTES).ok

\* C22, amended: post_upgrade of an id that is registered in the running
\* instance traps, with or without a conversion (no message that replies as
\* a successful post_upgrade is one of it): in the read of the frame when
\* the region of the id does not hold one (as after init on a canister that
\* was never upgraded), in the decoding when the blob does not decode, both
\* before the value is assigned, and in all other cases at the registration
\* step, after the value has been assigned; and the message leaves the
\* value, every entry of the registry with its staged buffer and closures,
\* and stable memory as they were.
C22_RegisteredPostUpgrade ==
    [][last'.op = "trap" =>
          \A id \in Registered, s \in Slots, OldTy \in Types, c \in Converts \cup {"None"} :
              post_upgrade(s, id, OldTy, c)
              => /\ last'.result =
                        IF ~Reads(id) THEN "out_of_bounds"
                        ELSE IF ~Assigned(id, OldTy, c).ok THEN "codec"
                        ELSE "already_registered"
                 /\ DATA' = DATA
                 /\ STATE_SNAPSHOTS' = STATE_SNAPSHOTS
                 /\ MEMORY_MANAGER' = MEMORY_MANAGER]_vars
    /\ [][(last'.op = "post_upgrade" /\ last'.result = "ok") =>
          \A id \in Registered, s \in Slots, OldTy \in Types, c \in Converts \cup {"None"} :
              ~post_upgrade(s, id, OldTy, c)]_vars

\* post_upgrade trapped at its registration step on an id with a staged
\* snapshot, after it had decoded a value other than the one in the static
C22_Witness ==
    /\ last.op = "trap" /\ last.result = "already_registered"
    /\ \E id \in Registered :
           /\ staged(id) # <<>>
           /\ Assigned(id, DATA.ty, "None").ok
           /\ Assigned(id, DATA.ty, "None").val # DATA

====
